---- MODULE Spec2Model ----
(***************************************************************************)
(* Model of app.py of the Slack reaction relay: the FastAPI endpoint       *)
(* slack_events, the Bolt listener bolt_reaction_added, and the helpers    *)
(* fetch_slack_message, parse_article_from_message,                        *)
(* find_notion_page_by_url and update_notion_score.                        *)
(*                                                                         *)
(* A request in flight is a slot i: handler[i] names the coroutine that    *)
(* runs it, pc[i] its position in the per-event state machine, inflight[i] *)
(* the remote call it is awaiting.  The locals of the coroutine (score,    *)
(* message_text, article, notion_page_id) are per slot, as they are per    *)
(* coroutine frame in the program.  calls[i] and replies[i] record the     *)
(* remote calls a request issued and the answers it got.                   *)
(*                                                                         *)
(* A str is a sequence of one-character strings.                           *)
(***************************************************************************)
EXTENDS Integers, Sequences, FiniteSets, TLC

VARIABLES handler, body, pc, inflight, score, message_text, article,
          notion_page_id, calls, replies, response, text, result

vars == <<handler, body, pc, inflight, score, message_text, article,
          notion_page_id, calls, replies, response, text, result>>

\* the variables of the request slots
slotvars == <<handler, body, pc, inflight, score, message_text, article,
              notion_page_id, calls, replies, response>>

-----------------------------------------------------------------------------
(* Bounds *)

\* longest text given to parse_article_from_message in SpecParse
MaxLen == 5

\* number of requests to /slack/events in flight at once in SpecConc
MaxEvents == 2

-----------------------------------------------------------------------------
(* Python values *)

\* None where a str identifier (channel, reaction, page id, ...) is expected
None == "None"

\* None where a message text is expected
NoText == <<"None">>

\* None where an article dict is expected
NoArticle == [none |-> TRUE]

\* the module constant SLACK_CHANNEL (its default value)
SLACK_CHANNEL == "C08CB5CG1B7"

-----------------------------------------------------------------------------
(* str methods *)

\* the line boundaries of str.splitlines in the model's alphabet
LineBreaks == {"\n", "\r"}

\* the characters str.strip() removes
Whitespace == {" ", "\t", "\n", "\r"}

\* s[a:b] for 1-based a and inclusive b, empty when a > b
Slice(s, a, b) == IF a > b THEN <<>> ELSE SubSeq(s, a, b)

\* index of the first line boundary of s, Len(s) + 1 when there is none
FirstBreak(s) ==
  LET hits == {k \in 1..Len(s) : s[k] \in LineBreaks}
  IN  IF hits = {} THEN Len(s) + 1
      ELSE CHOOSE k \in hits : \A m \in hits : k <= m

\* length of the line boundary at index k: "\r\n" is one boundary
BreakLen(s, k) ==
  IF k < Len(s) /\ s[k] = "\r" /\ s[k + 1] = "\n" THEN 2 ELSE 1

RECURSIVE splitlines(_)
splitlines(s) ==
  IF s = <<>> THEN <<>>
  ELSE LET k == FirstBreak(s)
       IN  IF k > Len(s) THEN <<s>>
           ELSE <<Slice(s, 1, k - 1)>>
                  \o splitlines(Slice(s, k + BreakLen(s, k), Len(s)))

RECURSIVE lstrip(_, _)
lstrip(s, chars) ==
  IF s # <<>> /\ s[1] \in chars THEN lstrip(Tail(s), chars) ELSE s

RECURSIVE rstrip(_, _)
rstrip(s, chars) ==
  IF s # <<>> /\ s[Len(s)] \in chars
    THEN rstrip(Slice(s, 1, Len(s) - 1), chars) ELSE s

\* s.strip(chars)
strip_chars(s, chars) == rstrip(lstrip(s, chars), chars)

\* s.strip()
strip(s) == strip_chars(s, Whitespace)

startswith(s, c) == s # <<>> /\ s[1] = c
endswith(s, c) == s # <<>> /\ s[Len(s)] = c

RECURSIVE join(_, _)
\* sep.join(lines)
join(sep, lines) ==
  IF lines = <<>> THEN <<>>
  ELSE IF Len(lines) = 1 THEN lines[1]
  ELSE lines[1] \o sep \o join(sep, Tail(lines))

-----------------------------------------------------------------------------
(* parse_article_from_message *)

\* a message needs this many lines: `if len(lines) < 2`
TooFewLines(lines) == Len(lines) < 2

\* title = lines[0].strip().strip("*")
ParseTitle(line) == strip_chars(strip(line), {"*"})

\* faulty variant: the brackets are cut off without looking for both
ParseUrl_always_cut(line) ==
  LET url_line == strip(line)
  IN  Slice(url_line, 2, Len(url_line) - 1)

\* url_line = lines[1].strip();
\* url = url_line[1:-1] if startswith("<") and endswith(">") else url_line
ParseUrl(line) ==
  LET url_line == strip(line)
  IN  IF startswith(url_line, "<") /\ endswith(url_line, ">")
        THEN Slice(url_line, 2, Len(url_line) - 1)
        ELSE url_line

\* summary = "\n".join(lines[2:]) if len(lines) > 2 else ""
ParseSummary(lines) ==
  IF Len(lines) > 2 THEN join(<<"\n">>, Slice(lines, 3, Len(lines))) ELSE <<>>

parse_article_from_message(t) ==
  LET lines == splitlines(t)
  IN  IF TooFewLines(lines) THEN NoArticle
      ELSE [title   |-> ParseTitle(lines[1]),
            url     |-> ParseUrl(lines[2]),
            summary |-> ParseSummary(lines)]

-----------------------------------------------------------------------------
(* Inputs: inbound bodies and the answers of the remote services *)

EventTypes == {"reaction_added", "message"}
Channels == {SLACK_CHANNEL, "C0OTHER"}
Reactions == {"+1", "thumbsup", "o", "thumbsdown", "-1", "x", "heart"}
Challenges == {None, "tok"}
Timestamps == {"1.0"}

\* the JSON bodies posted to the endpoints; a missing `challenge` key is None
Bodies ==
  [challenge : Challenges, type : EventTypes, channel : Channels,
   reaction : Reactions, ts : Timestamps]

\* the bodies of SpecConc
ConcBodies ==
  [challenge : {None}, type : {"reaction_added"}, channel : {SLACK_CHANNEL},
   reaction : {"thumbsup", "x", "heart"}, ts : Timestamps]

U1 == <<"u", "1">>
U2 == <<"u", "2">>

\* "*T*\n<u1>\ns"
TextGood == <<"*", "T", "*", "\n", "<">> \o U1 \o <<">", "\n", "s">>
\* "*T*\n<u2>"
TextGood2 == <<"*", "T", "*", "\n", "<">> \o U2 \o <<">">>
\* "*T*"
TextOneLine == <<"*", "T", "*">>
\* "*T*\n<>"
TextEmptyUrl == <<"*", "T", "*", "\n", "<", ">">>
\* "T\n \ns"
TextBlankUrl == <<"T", "\n", " ", "\n", "s">>

Msg(ts, t) == [ts |-> ts, text |-> t]

\* what `await client.get(...)` and response.json() can give: an exception, or
\* the decoded JSON (ok flag, optional `messages` list of {ts, text})
FetchReply(raised, ok, has_messages, messages) ==
  [raised |-> raised, ok |-> ok, has_messages |-> has_messages,
   messages |-> messages]

FetchReplies ==
  { FetchReply(TRUE, FALSE, FALSE, <<>>),
    FetchReply(FALSE, FALSE, FALSE, <<>>),
    FetchReply(FALSE, TRUE, FALSE, <<>>),
    FetchReply(FALSE, TRUE, TRUE, <<Msg("0.9", TextGood)>>),
    FetchReply(FALSE, TRUE, TRUE, <<Msg("1.0", NoText)>>),
    FetchReply(FALSE, TRUE, TRUE, <<Msg("1.0", <<>>)>>),
    FetchReply(FALSE, TRUE, TRUE, <<Msg("0.9", TextGood2), Msg("1.0", TextGood)>>),
    FetchReply(FALSE, TRUE, TRUE, <<Msg("1.0", TextOneLine)>>),
    FetchReply(FALSE, TRUE, TRUE, <<Msg("1.0", TextEmptyUrl)>>),
    FetchReply(FALSE, TRUE, TRUE, <<Msg("1.0", TextBlankUrl)>>) }

ConcFetchReplies ==
  { FetchReply(FALSE, FALSE, FALSE, <<>>),
    FetchReply(FALSE, TRUE, TRUE, <<Msg("1.0", TextGood)>>),
    FetchReply(FALSE, TRUE, TRUE, <<Msg("1.0", TextGood2)>>) }

\* what notion.databases.query can give: an exception, or a response whose
\* `results` lists the matching pages
QueryReply(raised, results) == [raised |-> raised, results |-> results]

QueryReplies ==
  { QueryReply(TRUE, <<>>), QueryReply(FALSE, <<>>),
    QueryReply(FALSE, <<"R1">>), QueryReply(FALSE, <<"R2", "R1">>) }

ConcQueryReplies ==
  { QueryReply(TRUE, <<>>), QueryReply(FALSE, <<>>), QueryReply(FALSE, <<"R1">>),
    QueryReply(FALSE, <<"R2">>) }

\* what notion.pages.update can give: an exception, or the updated page
UpdateReply(raised) == [raised |-> raised]

UpdateReplies == {UpdateReply(TRUE), UpdateReply(FALSE)}

-----------------------------------------------------------------------------
(* HTTP responses and outcomes of a handler *)

NoResponse == [kind |-> "none", status |-> 0, message |-> "", challenge |-> None]

\* JSONResponse({"challenge": data["challenge"]})
ChallengeResponse(c) ==
  [kind |-> "json", status |-> 200, message |-> "", challenge |-> c]

\* JSONResponse({"message": msg}, status_code=200)
JSONResponse(msg) ==
  [kind |-> "json", status |-> 200, message |-> msg, challenge |-> None]

\* the coroutine ended with an exception: no response is built by the handler
Raised == [kind |-> "raise", status |-> 500, message |-> "", challenge |-> None]

\* the Bolt listener returned (it builds no response itself)
BoltReturn == [kind |-> "return", status |-> 200, message |-> "", challenge |-> None]

Ends(h, msg) == IF h = "slack_events" THEN JSONResponse(msg) ELSE BoltReturn

Terminal == {"SCORE_WRITTEN", "EARLY_EXIT", "FAULT"}

-----------------------------------------------------------------------------
(* The decisions of the handlers *)

\* faulty variant: the handshake is recognised only on bodies that carry no event
HasChallenge_no_event(b) == b.challenge # None /\ b.type # "reaction_added"

\* `if "challenge" in data`
HasChallenge(b) == b.challenge # None

\* `if event.get("type") == "reaction_added"`; Bolt dispatches the listener
\* registered with @bolt_app.event("reaction_added") on the same test
IsReactionAdded(b) == b.type = "reaction_added"

\* `if channel != SLACK_CHANNEL: return`
ChannelMonitored(b) == b.channel = SLACK_CHANNEL

\* faulty variant: the reaction filter lets every reaction through
slack_events_reactions_any == Reactions

\* the tuple of line 134
slack_events_reactions == {"+1", "thumbsup", "o", "thumbsdown", "-1", "x"}

\* faulty variant: the listener accepts a reaction slack_events does not know
bolt_reactions_wide == {"thumbsup", "thumbsdown", "heart"}

\* the tuple of line 189
bolt_reactions == {"thumbsup", "thumbsdown"}

AcceptedReactions(h) ==
  IF h = "slack_events" THEN slack_events_reactions ELSE bolt_reactions

\* faulty variant: the synonym "o" is left out of the positive names
slack_events_score_no_o(reaction) ==
  IF reaction \in {"+1", "thumbsup"} THEN 1 ELSE 0

\* lines 138-141
slack_events_score(reaction) ==
  IF reaction \in {"+1", "thumbsup", "o"} THEN 1 ELSE 0

\* line 192
bolt_score(reaction) == IF reaction = "thumbsup" THEN 1 ELSE 0

ScoreOf(h, reaction) ==
  IF h = "slack_events" THEN slack_events_score(reaction)
  ELSE bolt_score(reaction)

\* `if not message_text`
NoMessage(t) == t = NoText \/ t = <<>>

\* fetch_slack_message after the await: the text of the first message whose ts
\* is the requested one, None when the answer is not ok, has no `messages`
\* or has no such message
MessageText(r, ts) ==
  IF ~r.ok \/ ~r.has_messages THEN NoText
  ELSE LET hits == {k \in 1..Len(r.messages) : r.messages[k].ts = ts}
       IN  IF hits = {} THEN NoText
           ELSE r.messages[CHOOSE k \in hits : \A m \in hits : k <= m].text

\* faulty variant: the last matching page instead of the first
PageId_last(r) ==
  IF r.results # <<>> THEN r.results[Len(r.results)] ELSE None

\* `return results[0]["id"] if results else None`
PageId(r) == IF r.results # <<>> THEN r.results[1] ELSE None

\* faulty variant: the fetch is retried when it gave no usable text
AfterFetchMiss_retry == "REACTION_FILTERED"

\* where a request goes when the fetched text is unusable
AfterFetchMiss == "EARLY_EXIT"

\* the remote calls as issued
FetchCallOf(i) ==
  [api |-> "conversations.replies", channel |-> body[i].channel, ts |-> body[i].ts]
QueryCallOf(i) == [api |-> "databases.query", url |-> article[i].url]
\* faulty variant: the score is kept in one variable shared by all requests (the
\* value the first slot last computed)
UpdateCallOf_shared_score(i) ==
  [api |-> "pages.update", page_id |-> notion_page_id[i], score |-> score[1]]


UpdateCallOf(i) ==
  [api |-> "pages.update", page_id |-> notion_page_id[i], score |-> score[i]]

-----------------------------------------------------------------------------
(* Initial states *)

Idle(S) ==
  /\ body = [i \in S |-> [challenge |-> None, type |-> None, channel |-> None,
                          reaction |-> None, ts |-> None]]
  /\ pc = [i \in S |-> "IDLE"]
  /\ inflight = [i \in S |-> None]
  /\ score = [i \in S |-> -1]
  /\ message_text = [i \in S |-> NoText]
  /\ article = [i \in S |-> NoArticle]
  /\ notion_page_id = [i \in S |-> None]
  /\ calls = [i \in S |-> <<>>]
  /\ replies = [i \in S |-> <<>>]
  /\ response = [i \in S |-> NoResponse]

\* The server with both routes registered (SLACK_SIGNING_SECRET is set):
\* slot 1 is a request to /slack/events, slot 2 one to /slack/bolt_events.
Init ==
  /\ handler = <<"slack_events", "bolt_reaction_added">>
  /\ Idle({1, 2})
  /\ text = <<>>
  /\ result = NoArticle

\* MaxEvents requests to /slack/events
InitConc ==
  /\ handler = [i \in 1..MaxEvents |-> "slack_events"]
  /\ Idle(1..MaxEvents)
  /\ text = <<>>
  /\ result = NoArticle

-----------------------------------------------------------------------------
(* The steps of a request *)

\* the request arrives: `data = await request.json()` / Bolt calls the listener
Receive(i, b) ==
  /\ pc[i] = "IDLE"
  /\ handler[i] = "bolt_reaction_added" => IsReactionAdded(b)
  /\ body' = [body EXCEPT ![i] = b]
  /\ pc' = [pc EXCEPT ![i] = "RECEIVED"]
  /\ UNCHANGED <<handler, inflight, score, message_text, article,
                 notion_page_id, calls, replies, response, text, result>>

\* slack_events lines 122-131, bolt_reaction_added lines 180-186
CheckChannel(i) ==
  /\ pc[i] = "RECEIVED"
  /\ IF handler[i] = "slack_events" /\ HasChallenge(body[i])
       THEN /\ response' = [response EXCEPT ![i] = ChallengeResponse(body[i].challenge)]
            /\ pc' = [pc EXCEPT ![i] = "EARLY_EXIT"]
     ELSE IF handler[i] = "slack_events" /\ ~IsReactionAdded(body[i])
       THEN /\ response' = [response EXCEPT ![i] = JSONResponse("Event type not handled")]
            /\ pc' = [pc EXCEPT ![i] = "EARLY_EXIT"]
     ELSE IF ~ChannelMonitored(body[i])
       THEN /\ response' = [response EXCEPT ![i] = Ends(handler[i], "Channel not monitored")]
            /\ pc' = [pc EXCEPT ![i] = "EARLY_EXIT"]
     ELSE /\ pc' = [pc EXCEPT ![i] = "CHANNEL_FILTERED"]
          /\ UNCHANGED response
  /\ UNCHANGED <<handler, body, inflight, score, message_text, article,
                 notion_page_id, calls, replies, text, result>>

\* slack_events lines 132-141, bolt_reaction_added lines 187-192
CheckReaction(i) ==
  /\ pc[i] = "CHANNEL_FILTERED"
  /\ IF body[i].reaction \notin AcceptedReactions(handler[i])
       THEN /\ response' = [response EXCEPT ![i] = Ends(handler[i], "Reaction not processed")]
            /\ pc' = [pc EXCEPT ![i] = "EARLY_EXIT"]
            /\ UNCHANGED score
       ELSE /\ score' = [score EXCEPT ![i] = ScoreOf(handler[i], body[i].reaction)]
            /\ pc' = [pc EXCEPT ![i] = "REACTION_FILTERED"]
            /\ UNCHANGED response
  /\ UNCHANGED <<handler, body, inflight, message_text, article,
                 notion_page_id, calls, replies, text, result>>

\* lines 143-147 and 35-42: the conversations.replies request is sent
FetchCall(i) ==
  /\ pc[i] = "REACTION_FILTERED"
  /\ inflight[i] = None
  /\ calls' = [calls EXCEPT ![i] = Append(@, FetchCallOf(i))]
  /\ inflight' = [inflight EXCEPT ![i] = "fetch"]
  /\ UNCHANGED <<handler, body, pc, score, message_text, article,
                 notion_page_id, replies, response, text, result>>

\* lines 42-54 and 148-150: the answer r arrives
FetchReturn(i, r) ==
  /\ inflight[i] = "fetch"
  /\ inflight' = [inflight EXCEPT ![i] = None]
  /\ replies' = [replies EXCEPT ![i] = Append(@, r)]
  /\ IF r.raised
       THEN /\ pc' = [pc EXCEPT ![i] = "FAULT"]
            /\ response' = [response EXCEPT ![i] = Raised]
            /\ UNCHANGED message_text
     ELSE IF NoMessage(MessageText(r, body[i].ts))
       THEN /\ message_text' = [message_text EXCEPT ![i] = MessageText(r, body[i].ts)]
            /\ pc' = [pc EXCEPT ![i] = AfterFetchMiss]
            /\ response' = [response EXCEPT ![i] =
                 IF AfterFetchMiss = "EARLY_EXIT"
                   THEN Ends(handler[i], "Message fetch failed") ELSE @]
     ELSE /\ message_text' = [message_text EXCEPT ![i] = MessageText(r, body[i].ts)]
          /\ pc' = [pc EXCEPT ![i] = "MESSAGE_FETCHED"]
          /\ UNCHANGED response
  /\ UNCHANGED <<handler, body, score, article, notion_page_id, calls,
                 text, result>>

\* lines 152-155
Parse(i) ==
  /\ pc[i] = "MESSAGE_FETCHED"
  /\ article' = [article EXCEPT ![i] = parse_article_from_message(message_text[i])]
  /\ IF article'[i] = NoArticle
       THEN /\ pc' = [pc EXCEPT ![i] = "EARLY_EXIT"]
            /\ response' = [response EXCEPT ![i] = Ends(handler[i], "Article parse failed")]
       ELSE /\ pc' = [pc EXCEPT ![i] = "PARSED"]
            /\ UNCHANGED response
  /\ UNCHANGED <<handler, body, inflight, score, message_text,
                 notion_page_id, calls, replies, text, result>>

\* lines 157 and 80-90: the databases.query request is sent
QueryCall(i) ==
  /\ pc[i] = "PARSED"
  /\ inflight[i] = None
  /\ calls' = [calls EXCEPT ![i] = Append(@, QueryCallOf(i))]
  /\ inflight' = [inflight EXCEPT ![i] = "query"]
  /\ UNCHANGED <<handler, body, pc, score, message_text, article,
                 notion_page_id, replies, response, text, result>>

\* lines 87-92 and 158-160: the answer r arrives
QueryReturn(i, r) ==
  /\ inflight[i] = "query"
  /\ inflight' = [inflight EXCEPT ![i] = None]
  /\ replies' = [replies EXCEPT ![i] = Append(@, r)]
  /\ IF r.raised
       THEN /\ pc' = [pc EXCEPT ![i] = "FAULT"]
            /\ response' = [response EXCEPT ![i] = Raised]
            /\ UNCHANGED notion_page_id
     ELSE IF PageId(r) = None
       THEN /\ notion_page_id' = [notion_page_id EXCEPT ![i] = None]
            /\ pc' = [pc EXCEPT ![i] = "EARLY_EXIT"]
            /\ response' = [response EXCEPT ![i] = Ends(handler[i], "Notion page not found")]
     ELSE /\ notion_page_id' = [notion_page_id EXCEPT ![i] = PageId(r)]
          /\ pc' = [pc EXCEPT ![i] = "RECORD_LOCATED"]
          /\ UNCHANGED response
  /\ UNCHANGED <<handler, body, score, message_text, article, calls,
                 text, result>>

\* lines 162 and 95-109: the pages.update request is sent
UpdateCall(i) ==
  /\ pc[i] = "RECORD_LOCATED"
  /\ inflight[i] = None
  /\ calls' = [calls EXCEPT ![i] = Append(@, UpdateCallOf(i))]
  /\ inflight' = [inflight EXCEPT ![i] = "update"]
  /\ UNCHANGED <<handler, body, pc, score, message_text, article,
                 notion_page_id, replies, response, text, result>>

\* faulty variant: update_notion_score logs the exception and does not re-raise
UpdateRaises_swallowed(r) == FALSE

\* what update_notion_score does with an exception of pages.update: log, raise
UpdateRaises(r) == r.raised

\* lines 108-114 and 163-164: the answer r arrives
UpdateReturn(i, r) ==
  /\ inflight[i] = "update"
  /\ inflight' = [inflight EXCEPT ![i] = None]
  /\ replies' = [replies EXCEPT ![i] = Append(@, r)]
  /\ IF UpdateRaises(r)
       THEN /\ pc' = [pc EXCEPT ![i] = "FAULT"]
            /\ response' = [response EXCEPT ![i] = Raised]
       ELSE /\ pc' = [pc EXCEPT ![i] = "SCORE_WRITTEN"]
            /\ response' = [response EXCEPT ![i] = Ends(handler[i], "Notion updated")]
  /\ UNCHANGED <<handler, body, score, message_text, article,
                 notion_page_id, calls, text, result>>

\* the response is sent and the coroutine frame is gone
Done(i) ==
  /\ pc[i] \in Terminal
  /\ body' = [body EXCEPT ![i] = [challenge |-> None, type |-> None,
                channel |-> None, reaction |-> None, ts |-> None]]
  /\ pc' = [pc EXCEPT ![i] = "IDLE"]
  /\ score' = [score EXCEPT ![i] = -1]
  /\ message_text' = [message_text EXCEPT ![i] = NoText]
  /\ article' = [article EXCEPT ![i] = NoArticle]
  /\ notion_page_id' = [notion_page_id EXCEPT ![i] = None]
  /\ calls' = [calls EXCEPT ![i] = <<>>]
  /\ replies' = [replies EXCEPT ![i] = <<>>]
  /\ response' = [response EXCEPT ![i] = NoResponse]
  /\ UNCHANGED <<handler, inflight, text, result>>

Next ==
  \/ \E i \in DOMAIN pc, b \in Bodies : Receive(i, b)
  \/ \E i \in DOMAIN pc : CheckChannel(i)
  \/ \E i \in DOMAIN pc : CheckReaction(i)
  \/ \E i \in DOMAIN pc : FetchCall(i)
  \/ \E i \in DOMAIN pc, r \in FetchReplies : FetchReturn(i, r)
  \/ \E i \in DOMAIN pc : Parse(i)
  \/ \E i \in DOMAIN pc : QueryCall(i)
  \/ \E i \in DOMAIN pc, r \in QueryReplies : QueryReturn(i, r)
  \/ \E i \in DOMAIN pc : UpdateCall(i)
  \/ \E i \in DOMAIN pc, r \in UpdateReplies : UpdateReturn(i, r)
  \/ \E i \in DOMAIN pc : Done(i)

Spec == Init /\ [][Next]_vars

NextConc ==
  \/ \E i \in DOMAIN pc, b \in ConcBodies : Receive(i, b)
  \/ \E i \in DOMAIN pc : CheckChannel(i)
  \/ \E i \in DOMAIN pc : CheckReaction(i)
  \/ \E i \in DOMAIN pc : FetchCall(i)
  \/ \E i \in DOMAIN pc, r \in ConcFetchReplies : FetchReturn(i, r)
  \/ \E i \in DOMAIN pc : Parse(i)
  \/ \E i \in DOMAIN pc : QueryCall(i)
  \/ \E i \in DOMAIN pc, r \in ConcQueryReplies : QueryReturn(i, r)
  \/ \E i \in DOMAIN pc : UpdateCall(i)
  \/ \E i \in DOMAIN pc, r \in UpdateReplies : UpdateReturn(i, r)
  \/ \E i \in DOMAIN pc : Done(i)

SpecConc == InitConc /\ [][NextConc]_vars

-----------------------------------------------------------------------------
(* parse_article_from_message on every text of at most MaxLen characters *)

Alphabet == {"*", "<", ">", " ", "\n", "\r", "a"}

Texts == UNION {[1..n -> Alphabet] : n \in 0..MaxLen}

InitParse ==
  /\ handler = <<"slack_events">>
  /\ Idle({1})
  /\ text \in Texts
  /\ result = [pending |-> TRUE]

ParseText ==
  /\ result = [pending |-> TRUE]
  /\ result' = parse_article_from_message(text)
  /\ UNCHANGED <<slotvars, text>>

NextParse == ParseText

SpecParse == InitParse /\ [][NextParse]_vars

-----------------------------------------------------------------------------
(* Vocabulary of the claims *)

Slots == DOMAIN pc
Primary(i) == handler[i] = "slack_events" /\ pc[i] # "IDLE"
Secondary(i) == handler[i] = "bolt_reaction_added" /\ pc[i] # "IDLE"
Apis(i) == [k \in 1..Len(calls[i]) |-> calls[i][k].api]
Pipeline == <<"conversations.replies", "databases.query", "pages.update">>
Ok200(i, msg) ==
  response[i].kind = "json" /\ response[i].status = 200 /\ response[i].message = msg
Positive == {"+1", "thumbsup", "o"}
Negative == {"-1", "thumbsdown", "x"}

-----------------------------------------------------------------------------
\* C1: a body without a `challenge` key whose event slack_events filters out
\* (channel other than SLACK_CHANNEL, or a reaction outside the six recognised
\* names) issues no remote call in any state of its handling, never faults,
\* and ends with an HTTP 200 response.
C1_FilteredOutNoRemoteCall ==
  \A i \in Slots :
    ( /\ Primary(i)
      /\ body[i].challenge = "None"
      /\ \/ body[i].channel # "C08CB5CG1B7"
         \/ body[i].reaction \notin Positive \cup Negative )
    => /\ calls[i] = <<>> /\ replies[i] = <<>> /\ inflight[i] = "None"
       /\ pc[i] \in {"RECEIVED", "CHANNEL_FILTERED", "EARLY_EXIT"}
       /\ pc[i] = "EARLY_EXIT"
            => response[i].kind = "json" /\ response[i].status = 200

C1_Witness ==
  \E i \in Slots :
    /\ Primary(i) /\ pc[i] = "EARLY_EXIT"
    /\ body[i].challenge = "None" /\ body[i].type = "reaction_added"
    /\ body[i].channel = "C08CB5CG1B7" /\ body[i].reaction = "heart"
    /\ Ok200(i, "Reaction not processed")

-----------------------------------------------------------------------------
\* C2 as stated: a failing update_notion_score propagates out of slack_events
\* (FAULT), and it is the only failure that does: a request of slack_events is
\* in FAULT only after pages.update raised.
C2_OnlyWriterFaults ==
  \A i \in Slots :
    Primary(i) /\ pc[i] \in Terminal =>
      /\ pc[i] = "FAULT" <=>
           /\ Len(replies[i]) = 3
           /\ replies[i][3].raised
      /\ pc[i] # "FAULT" => response[i].kind = "json" /\ response[i].status = 200

\* C2 amended: a failing update_notion_score propagates out of slack_events
\* (FAULT, no 200 response); so does an exception raised by the message fetch
\* or by the database query, and nothing else: every path on which a step
\* returns no usable data (no message text, parse failure, no record) ends
\* with HTTP 200.
C2_FaultIffRemoteCallRaised ==
  \A i \in Slots :
    Primary(i) /\ pc[i] \in Terminal =>
      /\ pc[i] = "FAULT" <=>
           /\ replies[i] # <<>>
           /\ replies[i][Len(replies[i])].raised
      /\ pc[i] = "FAULT" => response[i].kind = "raise"
      /\ pc[i] # "FAULT" => response[i].kind = "json" /\ response[i].status = 200
      /\ (Len(replies[i]) = 1 /\ pc[i] = "EARLY_EXIT")
           => IF message_text[i] \in {NoText, <<>>}
                THEN Ok200(i, "Message fetch failed")
                ELSE Ok200(i, "Article parse failed") /\ article[i] = NoArticle
      /\ (Len(replies[i]) = 2 /\ pc[i] = "EARLY_EXIT")
           => Ok200(i, "Notion page not found") /\ replies[i][2].results = <<>>

C2_Witness ==
  \E i \in Slots :
    /\ Primary(i) /\ pc[i] = "FAULT"
    /\ Len(replies[i]) = 3 /\ replies[i][3].raised
    /\ response[i].kind = "raise"

-----------------------------------------------------------------------------
\* C3: the score slack_events computes and writes is decided by the reaction
\* name alone: 1 exactly for "+1", "thumbsup", "o" and 0 exactly for "-1",
\* "thumbsdown", "x"; a reaction outside the six names gets no score and no
\* write, and every written score is 0 or 1.
C3_ScoreFromReactionAlone ==
  \A i \in Slots :
    Primary(i) =>
      /\ score[i] # -1 =>
           /\ body[i].reaction \in Positive \cup Negative
           /\ score[i] = 1 <=> body[i].reaction \in Positive
           /\ score[i] = 0 <=> body[i].reaction \in Negative
      /\ body[i].reaction \notin Positive \cup Negative
           => score[i] = -1 /\ calls[i] = <<>>
      /\ \A k \in 1..Len(calls[i]) :
           calls[i][k].api = "pages.update" =>
             /\ calls[i][k].score \in {0, 1}
             /\ calls[i][k].score = 1 <=> body[i].reaction \in Positive
             /\ calls[i][k].score = 0 <=> body[i].reaction \in Negative

C3_Witness ==
  \E i \in Slots :
    /\ Primary(i) /\ pc[i] = "SCORE_WRITTEN" /\ body[i].reaction = "o"
    /\ Len(calls[i]) = 3 /\ calls[i][3].score = 1

-----------------------------------------------------------------------------
\* the record the locator returned to request i: the first page of the answer
\* to its databases.query call
Located(i) == replies[i][2].results[1]
HasRecord(i) == replies[i][2].results # <<>>
QueryAnswered(i) ==
  /\ Primary(i) /\ pc[i] \in Terminal
  /\ Len(replies[i]) >= 2 /\ ~replies[i][2].raised
Written(i) == \E k \in 1..Len(calls[i]) : calls[i][k].api = "pages.update"
ExpectedScore(i) == IF body[i].reaction \in Positive THEN 1 ELSE 0

\* C4 as stated: once the locator has answered for the parsed url, the writer
\* is called iff a record id R was returned, then with exactly (R, score of
\* the reaction) and the response is 200 with a success message; with no
\* record the response is 200 "not found" and the writer is never called.
C4_WriteIffLocatedThen200 ==
  \A i \in Slots :
    QueryAnswered(i) =>
      /\ Written(i) <=> HasRecord(i)
      /\ HasRecord(i) =>
           /\ calls[i][3].page_id = Located(i)
           /\ calls[i][3].score = ExpectedScore(i)
           /\ calls[i][2].url = article[i].url
           /\ Ok200(i, "Notion updated")
      /\ ~HasRecord(i) => Ok200(i, "Notion page not found")

\* C4 amended: the writer is called iff the locator returned a record id R,
\* and then with exactly (R, score of the reaction); the response is 200
\* "Notion updated" when the write returns, and the write's exception
\* propagates (no 200 response) when it raises; with no record the response is
\* 200 "Notion page not found" and the writer is never called.
C4_WriteIffLocated ==
  \A i \in Slots :
    QueryAnswered(i) =>
      /\ Written(i) <=> HasRecord(i)
      /\ HasRecord(i) =>
           /\ calls[i][3].page_id = Located(i)
           /\ calls[i][3].score = ExpectedScore(i)
           /\ calls[i][2].url = article[i].url
           /\ Len(replies[i]) = 3
           /\ IF replies[i][3].raised
                THEN pc[i] = "FAULT" /\ response[i].kind = "raise"
                ELSE pc[i] = "SCORE_WRITTEN" /\ Ok200(i, "Notion updated")
      /\ ~HasRecord(i) =>
           pc[i] = "EARLY_EXIT" /\ Ok200(i, "Notion page not found")

C4_Witness ==
  \E i \in Slots :
    /\ QueryAnswered(i) /\ pc[i] = "SCORE_WRITTEN"
    /\ replies[i][2].results = <<"R2", "R1">>
    /\ body[i].reaction = "thumbsup"
    /\ calls[i][3] = [api |-> "pages.update", page_id |-> "R2", score |-> 1]
    /\ Ok200(i, "Notion updated")

-----------------------------------------------------------------------------
\* C5: a body with a `challenge` key, whatever else it holds, makes
\* slack_events answer {"challenge": <that value>} at once: no filter is
\* evaluated, no score computed and no remote call issued.
C5_ChallengeEchoed ==
  \A i \in Slots :
    Primary(i) /\ body[i].challenge # "None" =>
      /\ calls[i] = <<>> /\ replies[i] = <<>> /\ inflight[i] = "None"
      /\ score[i] = -1
      /\ pc[i] \in {"RECEIVED", "EARLY_EXIT"}
      /\ pc[i] = "EARLY_EXIT" =>
           response[i] = [kind |-> "json", status |-> 200, message |-> "",
                          challenge |-> body[i].challenge]

C5_Witness ==
  \E i \in Slots :
    /\ Primary(i) /\ pc[i] = "EARLY_EXIT"
    /\ body[i] = [challenge |-> "tok", type |-> "reaction_added",
                  channel |-> "C08CB5CG1B7", reaction |-> "thumbsup", ts |-> "1.0"]
    /\ response[i].challenge = "tok"

-----------------------------------------------------------------------------
\* C7: every article parse_article_from_message produced, and every url
\* slack_events passed to find_notion_page_by_url, has a non-empty url.
C7_UrlNonEmpty ==
  \A i \in Slots :
    Primary(i) =>
      /\ article[i] # NoArticle => article[i].url # <<>>
      /\ \A k \in 1..Len(calls[i]) :
           calls[i][k].api = "databases.query" => calls[i][k].url # <<>>

-----------------------------------------------------------------------------
\* the transitions of the per-event state machine; a finished request frees
\* its slot for the next event
Forward ==
  { <<"IDLE", "RECEIVED">>,
    <<"RECEIVED", "CHANNEL_FILTERED">>, <<"RECEIVED", "EARLY_EXIT">>,
    <<"CHANNEL_FILTERED", "REACTION_FILTERED">>, <<"CHANNEL_FILTERED", "EARLY_EXIT">>,
    <<"REACTION_FILTERED", "MESSAGE_FETCHED">>, <<"REACTION_FILTERED", "EARLY_EXIT">>,
    <<"REACTION_FILTERED", "FAULT">>,
    <<"MESSAGE_FETCHED", "PARSED">>, <<"MESSAGE_FETCHED", "EARLY_EXIT">>,
    <<"PARSED", "RECORD_LOCATED">>, <<"PARSED", "EARLY_EXIT">>, <<"PARSED", "FAULT">>,
    <<"RECORD_LOCATED", "SCORE_WRITTEN">>, <<"RECORD_LOCATED", "FAULT">>,
    <<"SCORE_WRITTEN", "IDLE">>, <<"EARLY_EXIT", "IDLE">>, <<"FAULT", "IDLE">> }

IsPrefix(a, b) == Len(a) <= Len(b) /\ \A k \in 1..Len(a) : a[k] = b[k]

C8_Ordered ==
  \A i \in Slots :
    /\ IsPrefix(Apis(i), Pipeline)
    /\ Len(replies[i]) <= Len(calls[i])
    /\ Len(calls[i]) <= Len(replies[i]) + 1
    /\ Len(calls[i]) >= 2 =>
         /\ ~replies[i][1].raised
         /\ message_text[i] \notin {NoText, <<>>}
         /\ article[i] # NoArticle
    /\ Len(calls[i]) = 3 =>
         /\ ~replies[i][2].raised
         /\ replies[i][2].results # <<>>
         /\ notion_page_id[i] # "None"
    /\ pc[i] = "SCORE_WRITTEN" => Len(calls[i]) = 3 /\ Len(replies[i]) = 3
    /\ pc[i] \in Terminal => Len(calls[i]) = Len(replies[i])

C8_Step ==
  \A i \in Slots :
    /\ pc'[i] # pc[i] => <<pc[i], pc'[i]>> \in Forward
    /\ pc'[i] # "IDLE" =>
         /\ IsPrefix(calls[i], calls'[i])
         /\ Len(calls'[i]) <= Len(calls[i]) + 1
         /\ Len(calls'[i]) > Len(calls[i]) => Len(replies[i]) = Len(calls[i])

\* C8: an event moves through RECEIVED, CHANNEL_FILTERED, REACTION_FILTERED,
\* MESSAGE_FETCHED, PARSED, RECORD_LOCATED, SCORE_WRITTEN only forwards; the
\* message fetch, the database query and the database update are each issued
\* at most once, in that order, each only after the previous step returned
\* usable data and its answer arrived; so an event makes at most one update
\* and ends in SCORE_WRITTEN, EARLY_EXIT or FAULT.
C8_LinearPipeline == []C8_Ordered /\ [][C8_Step]_vars

C8_Witness ==
  \E i \in Slots :
    /\ Primary(i) /\ pc[i] = "SCORE_WRITTEN" /\ body[i].reaction = "x"
    /\ Apis(i) = Pipeline /\ Len(replies[i]) = 3

-----------------------------------------------------------------------------
\* the answers two requests got agree wherever both got one
SameAnswers(i, j) ==
  \A k \in 1..Len(replies[i]) : k <= Len(replies[j]) => replies[i][k] = replies[j][k]

BoltNarrow ==
  \A i \in Slots :
    Secondary(i) =>
      /\ Written(i) =>
           \/ body[i].reaction = "thumbsup" /\ calls[i][3].score = 1
           \/ body[i].reaction = "thumbsdown" /\ calls[i][3].score = 0
      /\ ( \/ body[i].reaction \notin {"thumbsup", "thumbsdown"}
           \/ body[i].channel # "C08CB5CG1B7" ) => calls[i] = <<>>

\* C9 as stated: for every reaction_added event and the same remote answers,
\* when bolt_reaction_added issues a write (R, s), slack_events issues the same
\* remote calls and the same write; bolt_reaction_added writes only for
\* "thumbsup" (1) and "thumbsdown" (0) and issues no remote call for another
\* reaction or an unmonitored channel.
C9_SecondaryRedundant ==
  /\ BoltNarrow
  /\ \A i, j \in Slots :
       ( /\ Secondary(i) /\ Primary(j)
         /\ pc[i] \in Terminal /\ pc[j] \in Terminal
         /\ body[i] = body[j] /\ SameAnswers(i, j)
         /\ Written(i) )
       => calls[j] = calls[i]

\* C9 amended: the same, for every body that carries no `challenge` key (on a
\* body with a `challenge` key slack_events only echoes the challenge, while
\* bolt_reaction_added handles the event it carries).
C9_SecondaryRedundantNoChallenge ==
  /\ BoltNarrow
  /\ \A i, j \in Slots :
       ( /\ Secondary(i) /\ Primary(j)
         /\ pc[i] \in Terminal /\ pc[j] \in Terminal
         /\ body[i] = body[j] /\ SameAnswers(i, j)
         /\ body[i].challenge = "None"
         /\ Written(i) )
       => calls[j] = calls[i] /\ pc[j] = pc[i]

C9_Witness ==
  \E i, j \in Slots :
    /\ Secondary(i) /\ Primary(j)
    /\ pc[i] = "SCORE_WRITTEN" /\ pc[j] = "SCORE_WRITTEN"
    /\ body[i] = body[j] /\ body[i].reaction = "thumbsdown"
    /\ body[i].challenge = "None"
    /\ replies[i] = replies[j] /\ calls[i] = calls[j]
    /\ calls[i][3].score = 0

-----------------------------------------------------------------------------
\* C10: with several requests to slack_events interleaved at their awaits,
\* each request still runs its calls one after the other, and its outcome and
\* its write depend on its own body and its own answers alone: the write is
\* (first page of its own query answer, score of its own reaction), and two
\* requests with the same body and the same answers end alike.
C10_EventsIndependent ==
  /\ \A i \in Slots :
       /\ Len(replies[i]) <= Len(calls[i])
       /\ Len(calls[i]) <= Len(replies[i]) + 1
       /\ IsPrefix(Apis(i), Pipeline)
       /\ Written(i) =>
            /\ calls[i][3].page_id = Located(i)
            /\ calls[i][3].score = ExpectedScore(i)
            /\ body[i].reaction \in Positive \cup Negative
            /\ calls[i][2].url = parse_article_from_message(
                 MessageText(replies[i][1], body[i].ts)).url
  /\ \A i, j \in Slots :
       ( /\ Primary(i) /\ Primary(j)
         /\ pc[i] \in Terminal /\ pc[j] \in Terminal
         /\ body[i] = body[j] /\ replies[i] = replies[j] )
       => /\ pc[i] = pc[j] /\ response[i] = response[j]
          /\ calls[i] = calls[j]

C10_Witness ==
  \E i, j \in Slots :
    /\ i # j
    /\ pc[i] = "SCORE_WRITTEN" /\ pc[j] = "SCORE_WRITTEN"
    /\ calls[i][3] = [api |-> "pages.update", page_id |-> "R1", score |-> 1]
    /\ calls[j][3] = [api |-> "pages.update", page_id |-> "R2", score |-> 0]
    /\ calls[i][2].url = U1 /\ calls[j][2].url = U2

-----------------------------------------------------------------------------
(* parse_article_from_message: what the claims say of its result *)

Parsed == result # [pending |-> TRUE]

\* the number of lines of s: one per line boundary ("\r\n" counts once), and
\* one more for a last line that no boundary ends
NumLines(s) ==
  Cardinality({k \in 1..Len(s) :
                 /\ s[k] \in {"\n", "\r"}
                 /\ ~(s[k] = "\n" /\ k > 1 /\ s[k - 1] = "\r")})
    + (IF s # <<>> /\ s[Len(s)] \notin {"\n", "\r"} THEN 1 ELSE 0)

\* t is line with every leading and trailing character of chars removed
TrimOf(line, chars, t) ==
  \E a, b \in 0..Len(line) :
    /\ a + b <= Len(line)
    /\ t = Slice(line, a + 1, Len(line) - b)
    /\ \A k \in 1..a : line[k] \in chars
    /\ \A k \in (Len(line) - b + 1)..Len(line) : line[k] \in chars
    /\ t = <<>> \/ (t[1] \notin chars /\ t[Len(t)] \notin chars)

Pieces(line) == {Slice(line, a, b) : a \in 1..(Len(line) + 1), b \in 0..Len(line)}

Bracketed(u) == Len(u) >= 2 /\ u[1] = "<" /\ u[Len(u)] = ">"

Unbracket(u) == IF Bracketed(u) THEN Slice(u, 2, Len(u) - 1) ELSE u

RECURSIVE Rejoined(_, _)
\* lines k, k + 1, ... with a newline between each two
Rejoined(lines, k) ==
  IF k > Len(lines) THEN <<>>
  ELSE IF k = Len(lines) THEN lines[k]
  ELSE lines[k] \o <<"\n">> \o Rejoined(lines, k + 1)

\* C6 as stated: parse_article_from_message returns null exactly when the text
\* has fewer than 2 lines, and otherwise the title is line 0 with its `*`
\* markers stripped, the url is line 1 without its angle brackets when both
\* are present and line 1 itself otherwise, and the summary is the remaining
\* lines rejoined with newlines.
C6_ParseVerbatim ==
  Parsed =>
    LET lines == splitlines(text)
    IN  /\ result = NoArticle <=> NumLines(text) < 2
        /\ result # NoArticle =>
             /\ TrimOf(lines[1], {"*"}, result.title)
             /\ result.url = Unbracket(lines[2])
             /\ result.summary = Rejoined(lines, 3)

\* C6 amended: parse_article_from_message never throws and returns null exactly
\* when the text has fewer than 2 lines; otherwise the title is line 0 with
\* surrounding whitespace removed and then its leading and trailing `*`
\* stripped, the url is line 1 with surrounding whitespace removed, without
\* its angle brackets when both are then present, and the summary is the
\* remaining lines rejoined with newlines (empty when there are none).
C6_ParseTrimmed ==
  Parsed =>
    LET lines == splitlines(text)
    IN  /\ result = NoArticle <=> NumLines(text) < 2
        /\ result # NoArticle =>
             /\ Len(lines) = NumLines(text)
             /\ \E m \in Pieces(lines[1]) :
                  /\ TrimOf(lines[1], {" ", "\t"}, m)
                  /\ TrimOf(m, {"*"}, result.title)
             /\ \E m \in Pieces(lines[2]) :
                  /\ TrimOf(lines[2], {" ", "\t"}, m)
                  /\ result.url = Unbracket(m)
             /\ result.summary = Rejoined(lines, 3)

C6_Witness ==
  /\ Parsed /\ result # NoArticle
  /\ result.url # <<>> /\ result.url # splitlines(text)[2]
  /\ result.summary # <<>>

====
